---------------------------- MODULE Spec2Model ----------------------------
(***************************************************************************)
(* The StatefulSet service of redis-operator (service/k8s/statefulset.go). *)
(* Callers (Procs) invoke the seven public operations of                   *)
(* StatefulSetService; every operation is a sequence of calls to the       *)
(* cluster API (the backing store), each followed by a report to the       *)
(* metrics recorder.  The store keeps one object per (namespace, name)     *)
(* with a version token (ResourceVersion) assigned on every write.         *)
(* Every operation is given a desired object of its own: callers do not    *)
(* share one *appsv1.StatefulSet between operations that run concurrently. *)
(***************************************************************************)
EXTENDS Naturals, Sequences, FiniteSets, TLC

\* -------------------------------------------------------------- bounds
\* Number of public operations started in one run.
MaxCalls == 2
\* Largest version token a caller may put on a desired object (0 = none).
MaxCallerToken == 1

\* ------------------------------------------------------------ universe
Procs == {"p1", "p2"}
Namespaces == {"ns-a", "ns-b"}
Names == {"redis-1"}
AllNames == Names \cup {"redis-2"}
Keys == Namespaces \X AllNames

\* The content of a StatefulSet other than its metadata, by name.
Specs == {"s1", "s2"}
\* ... and a content whose selector has no match-labels.
NoLabelsSpec == "s0"
\* Spec.Selector.MatchLabels of each content: a set of <<key, value>> pairs
\* with distinct keys (a Go map[string]string).
MatchLabels(s) ==
    IF s = "s1" THEN {<<"app", "redis">>, <<"role", "master">>}
    ELSE IF s = "s2" THEN {<<"app", "redis">>}
    ELSE {}

\* The pods the cluster may hold: namespace, labels, owning StatefulSet.
PodIds == {"pod-0", "pod-1", "pod-2", "pod-3"}
PodNs(pod) == IF pod = "pod-2" THEN "ns-b" ELSE "ns-a"
PodLabels(pod) ==
    IF pod = "pod-1" THEN {<<"app", "redis">>, <<"role", "slave">>}
    ELSE IF pod = "pod-3" THEN {<<"app", "sentinel">>}
    ELSE {<<"app", "redis">>, <<"role", "master">>}
PodOwner(pod) ==
    IF pod = "pod-2" THEN <<"ns-b", "redis-1">>
    ELSE IF pod = "pod-3" THEN <<"ns-a", "redis-2">>
    ELSE <<"ns-a", "redis-1">>

\* Error kinds.  "nil" is Go's nil error.  Faults are the failures the
\* transport or the server's access control may return for any call.
Faults == {"Forbidden", "Timeout"}
NoFault == "nil"

\* metrics.NOT_APPLICABLE, the object name reported for a LIST.
NOT_APPLICABLE == "NOT_APPLICABLE"

\* A stored object; rv = 0 stands for "no object under this key".
Absent == [spec |-> "-", rv |-> 0, deleting |-> FALSE]
Exists(o) == o.rv # 0

\* An object a caller passes in: *appsv1.StatefulSet (name, content, token).
NoObj == [name |-> "-", spec |-> "-", rv |-> 0]
DesiredObjects == [name : Names, spec : Specs, rv : 0..MaxCallerToken]
ApartObjects == [name : AllNames, spec : Specs, rv : {0}]
ApartKeys == {<<"ns-a", "redis-1">>, <<"ns-a", "redis-2">>, <<"ns-b", "redis-1">>}

VARIABLES
    store,      \* Keys -> stored object (the cluster's StatefulSets)
    nextRV,     \* the next version token the store assigns
    pods,       \* the pods alive in the cluster
    calls,      \* Procs -> the caller's current (or last finished) operation
    ncalls      \* operations started so far

vars == <<store, nextRV, pods, calls, ncalls>>

\* One caller's operation: pc is the position in the method's code.
IdleCall ==
    [pc |-> "idle", op |-> "none", ns |-> "-", obj |-> NoObj, arg |-> NoObj,
     stored |-> Absent, err |-> "nil", ret |-> "nil", out |-> {},
     selector |-> <<>>, trace |-> <<>>, sink |-> <<>>]


\* --------------------------------------------------- the backing store
\* kubeClient.AppsV1().StatefulSets(ns).Get: the stored object or an error.
ApiGet(ns, name, fault) ==
    IF fault # NoFault THEN [obj |-> Absent, err |-> fault]
    ELSE IF ~Exists(store[<<ns, name>>]) THEN [obj |-> Absent, err |-> "NotFound"]
    ELSE [obj |-> store[<<ns, name>>], err |-> "nil"]

\* StatefulSets(ns).Create: rejected when the name is taken; the store
\* assigns the version token, whatever token the passed object carries.
ApiCreate(ns, o, fault) ==
    IF fault # NoFault THEN [err |-> fault, store |-> store, nextRV |-> nextRV]
    ELSE IF Exists(store[<<ns, o.name>>])
    THEN [err |-> "AlreadyExists", store |-> store, nextRV |-> nextRV]
    ELSE [err |-> "nil",
          store |-> [store EXCEPT ![<<ns, o.name>>] =
                        [spec |-> o.spec, rv |-> nextRV, deleting |-> FALSE]],
          nextRV |-> nextRV + 1]

\* StatefulSets(ns).Update: optimistic concurrency, the passed object must
\* carry the stored object's version token; a new token is assigned.
ApiUpdate(ns, o, fault) ==
    IF fault # NoFault THEN [err |-> fault, store |-> store, nextRV |-> nextRV]
    ELSE IF ~Exists(store[<<ns, o.name>>])
    THEN [err |-> "NotFound", store |-> store, nextRV |-> nextRV]
    ELSE IF o.rv # store[<<ns, o.name>>].rv
    THEN [err |-> "Conflict", store |-> store, nextRV |-> nextRV]
    ELSE [err |-> "nil",
          store |-> [store EXCEPT ![<<ns, o.name>>] =
                        [@ EXCEPT !.spec = o.spec, !.rv = nextRV]],
          nextRV |-> nextRV + 1]

\* StatefulSets(ns).Delete with a propagation policy.  Foreground: the
\* object is only marked as being deleted and stays until the garbage
\* collector has removed its dependents.  Otherwise it is removed at once.
ApiDelete(ns, name, propagation, fault) ==
    IF fault # NoFault THEN [err |-> fault, store |-> store, nextRV |-> nextRV]
    ELSE IF ~Exists(store[<<ns, name>>])
    THEN [err |-> "NotFound", store |-> store, nextRV |-> nextRV]
    ELSE IF propagation # "Foreground"
    THEN [err |-> "nil", store |-> [store EXCEPT ![<<ns, name>>] = Absent],
          nextRV |-> nextRV]
    ELSE IF store[<<ns, name>>].deleting
    THEN [err |-> "nil", store |-> store, nextRV |-> nextRV]
    ELSE [err |-> "nil",
          store |-> [store EXCEPT ![<<ns, name>>] =
                        [@ EXCEPT !.deleting = TRUE, !.rv = nextRV]],
          nextRV |-> nextRV + 1]

\* StatefulSets(ns).List: the names of the namespace's objects.
ApiList(ns, fault) ==
    IF fault # NoFault THEN [items |-> {}, err |-> fault]
    ELSE [items |-> {n \in AllNames : Exists(store[<<ns, n>>])}, err |-> "nil"]

\* The pieces of the string s between the separators sep.
RECURSIVE Split(_, _)
Split(s, sep) ==
    IF \A i \in 1..Len(s) : s[i] # sep THEN <<s>>
    ELSE LET i == CHOOSE j \in 1..Len(s) :
                      s[j] = sep /\ \A k \in 1..(j - 1) : s[k] # sep
         IN  <<SubSeq(s, 1, i - 1)>> \o Split(SubSeq(s, i + 1, Len(s)), sep)

\* The requirements <<key, value>> of a selector string "k=v,k=v,...";
\* the empty string has none.
ParseSelector(s) ==
    IF s = <<>> THEN <<>>
    ELSE LET parts == Split(s, ",")
         IN  [i \in 1..Len(parts) |-> <<parts[i][1], parts[i][3]>>]

\* A pod matches a selector string when its labels meet every requirement.
SelectorMatches(selector, labels) ==
    \A i \in 1..Len(ParseSelector(selector)) : ParseSelector(selector)[i] \in labels

\* CoreV1().Pods(ns).List with a label selector.
ApiListPods(ns, selector, fault) ==
    IF fault # NoFault THEN [items |-> {}, err |-> fault]
    ELSE [items |-> {pod \in pods : /\ PodNs(pod) = ns
                                    /\ SelectorMatches(selector, PodLabels(pod))},
          err |-> "nil"]

\* ------------------------------------------------ the service's methods
\* Each method is a function of the caller's operation record c and of
\* the store's answer; it returns the record after the method.

\* A call issued through s.kubeClient: appended to the operation's trace.
\* rv is the token of the object passed (CREATE, UPDATE) or returned (GET).
Invoke(c, verb, kind, ns, name, spec, rv, err) ==
    [c EXCEPT !.trace = Append(@, [verb |-> verb, kind |-> kind, ns |-> ns,
                                   name |-> name, spec |-> spec, rv |-> rv,
                                   err |-> err])]

\* recordMetrics(namespace, kind, object, operation, err, recorder).
recordMetrics(c, ns, kind, name, verb, err) ==
    [c EXCEPT !.sink = Append(@, [ns |-> ns, kind |-> kind, name |-> name,
                                  verb |-> verb, err |-> err])]

\* GetStatefulSet: r is the store's answer to the Get.
GetStatefulSet(c, ns, name, r) ==
    LET c1 == Invoke(c, "GET", "StatefulSet", ns, name, r.obj.spec, r.obj.rv, r.err)
        c2 == recordMetrics(c1, ns, "StatefulSet", name, "GET", r.err)
    IN  IF r.err # "nil"
        THEN [c2 EXCEPT !.stored = Absent, !.err = r.err]
        ELSE [c2 EXCEPT !.stored = r.obj, !.err = r.err]

\* Faulty variant: the create's error is replaced by an error of the service's own.
CreateStatefulSetWrapped(c, ns, o, err) ==
    LET c1 == Invoke(c, "CREATE", "StatefulSet", ns, o.name, o.spec, o.rv, err)
        c2 == recordMetrics(c1, ns, "StatefulSet", o.name, "CREATE", err)
    IN  [c2 EXCEPT !.err = IF err = "nil" THEN "nil" ELSE "CreateError"]

\* Faulty variant: a name that is taken counts as a create that succeeded.
CreateStatefulSetIfAbsent(c, ns, o, err) ==
    LET c1 == Invoke(c, "CREATE", "StatefulSet", ns, o.name, o.spec, o.rv, err)
        c2 == recordMetrics(c1, ns, "StatefulSet", o.name, "CREATE", err)
    IN  [c2 EXCEPT !.err = IF err = "AlreadyExists" THEN "nil" ELSE err]

\* CreateStatefulSet: err is the store's answer to the Create.
CreateStatefulSet(c, ns, o, err) ==
    LET c1 == Invoke(c, "CREATE", "StatefulSet", ns, o.name, o.spec, o.rv, err)
        c2 == recordMetrics(c1, ns, "StatefulSet", o.name, "CREATE", err)
    IN  [c2 EXCEPT !.err = err]

\* Faulty variant: the update's error is logged and dropped.
UpdateStatefulSetSwallowed(c, ns, o, err) ==
    LET c1 == Invoke(c, "UPDATE", "StatefulSet", ns, o.name, o.spec, o.rv, err)
        c2 == recordMetrics(c1, ns, "StatefulSet", o.name, "UPDATE", err)
    IN  [c2 EXCEPT !.err = "nil"]

\* UpdateStatefulSet: err is the store's answer to the Update.
UpdateStatefulSet(c, ns, o, err) ==
    LET c1 == Invoke(c, "UPDATE", "StatefulSet", ns, o.name, o.spec, o.rv, err)
        c2 == recordMetrics(c1, ns, "StatefulSet", o.name, "UPDATE", err)
    IN  [c2 EXCEPT !.err = err]

\* Faulty variant: the delete leaves the dependents to be removed later.
DeletePropagationBackground == "Background"

\* The propagation policy DeleteStatefulSet asks for.
DeletePropagation == "Foreground"

\* DeleteStatefulSet: err is the store's answer to the Delete.
DeleteStatefulSet(c, ns, name, err) ==
    LET c1 == Invoke(c, "DELETE", "StatefulSet", ns, name, "-", 0, err)
        c2 == recordMetrics(c1, ns, "StatefulSet", name, "DELETE", err)
    IN  [c2 EXCEPT !.err = err]

\* ListStatefulSets: r is the store's answer to the List.
ListStatefulSets(c, ns, r) ==
    LET c1 == Invoke(c, "LIST", "StatefulSet", ns, NOT_APPLICABLE, "-", 0, r.err)
        c2 == recordMetrics(c1, ns, "StatefulSet", NOT_APPLICABLE, "LIST", r.err)
    IN  [c2 EXCEPT !.out = r.items, !.err = r.err]

\* The orders in which a range over the map m may enumerate its entries.
RangeOrders(m) ==
    {f \in [1..Cardinality(m) -> m] : \A e \in m : \E i \in 1..Cardinality(m) : f[i] = e}

\* Faulty variant: the value is put before the key.
FormatLabelValueFirst(e) == <<e[2], "=", e[1]>>

\* A string is the sequence of its tokens (label keys, label values and
\* the separators "=" and ",").  fmt.Sprintf("%s=%s", k, v):
FormatLabel(e) == <<e[1], "=", e[2]>>

\* strings.Join(parts, sep).
RECURSIVE Join(_, _)
Join(parts, sep) ==
    IF parts = <<>> THEN <<>>
    ELSE IF Len(parts) = 1 THEN parts[1]
    ELSE parts[1] \o <<sep>> \o Join(Tail(parts), sep)

\* The selector string GetStatefulSetPods builds when the range over the
\* match-labels enumerates them in the order `order`.
BuildSelector(order) ==
    Join([i \in 1..Len(order) |-> FormatLabel(order[i])], ",")

\* GetStatefulSetPods after a successful GetStatefulSet: the pod List with
\* the selector, whose answer r is returned as it is.
ListSelectedPods(c, ns, selector, r) ==
    LET c1 == Invoke(c, "LIST", "Pod", ns, NOT_APPLICABLE, "-", 0, r.err)
    IN  [c1 EXCEPT !.selector = selector, !.out = r.items, !.err = r.err]

\* Faulty variant: every error of the fetch is taken for "not found".
IsNotFoundAnyError(err) == err # "nil"

\* Faulty variant: no error of the fetch is taken for "not found".
IsNotFoundNever(err) == FALSE

\* errors.IsNotFound(err).
IsNotFound(err) == err = "NotFound"

\* Faulty variant: the stored object's content is copied along with its token.
SetResourceVersionAndContent(o, stored) ==
    [o EXCEPT !.rv = stored.rv, !.spec = stored.spec]

\* Faulty variant: the caller's token is kept.
SetResourceVersionKept(o, stored) == o

\* statefulSet.ResourceVersion = storedStatefulSet.ResourceVersion.
SetResourceVersion(o, stored) == [o EXCEPT !.rv = stored.rv]

\* The operation returns err to its caller.
Return(c, err) == [c EXCEPT !.pc = "done", !.ret = err]

\* Faulty variant: an object whose fetch failed for another reason is updated with
\* the token the caller's object carries.
CreateOrUpdateFetchedBlindUpdate(c) ==
    IF c.err # "nil"
    THEN IF IsNotFound(c.err) THEN [c EXCEPT !.pc = "create"]
         ELSE [c EXCEPT !.pc = "update"]
    ELSE [c EXCEPT !.obj = SetResourceVersion(c.obj, c.stored), !.pc = "update"]

\* Faulty variant: an object whose stored content is the desired one is
\* not written.
CreateOrUpdateFetchedSkipIfEqual(c) ==
    IF c.err # "nil"
    THEN IF IsNotFound(c.err) THEN [c EXCEPT !.pc = "create"]
         ELSE Return(c, c.err)
    ELSE IF c.stored.spec = c.obj.spec THEN Return(c, "nil")
    ELSE [c EXCEPT !.obj = SetResourceVersion(c.obj, c.stored), !.pc = "update"]

\* Faulty variant: an object that exists is left as it is.
CreateOrUpdateFetchedCreateOnly(c) ==
    IF c.err # "nil"
    THEN IF IsNotFound(c.err) THEN [c EXCEPT !.pc = "create"]
         ELSE Return(c, c.err)
    ELSE Return(c, "nil")

\* CreateOrUpdateStatefulSet after its GetStatefulSet: which way it goes.
CreateOrUpdateFetched(c) ==
    IF c.err # "nil"
    THEN IF IsNotFound(c.err) THEN [c EXCEPT !.pc = "create"]
         ELSE Return(c, c.err)
    ELSE [c EXCEPT !.obj = SetResourceVersion(c.obj, c.stored), !.pc = "update"]

\* Faulty variant: a failed create is tried again.
CreateOrUpdateCreatedRetry(c) ==
    IF c.err # "nil" THEN [c EXCEPT !.pc = "create"] ELSE Return(c, c.err)

\* Faulty variant: a failed create falls back to an update.
CreateOrUpdateCreatedFallback(c) ==
    IF c.err # "nil" THEN [c EXCEPT !.pc = "update"] ELSE Return(c, c.err)

\* return s.CreateStatefulSet(namespace, statefulSet)
CreateOrUpdateCreated(c) == Return(c, c.err)

\* Faulty variant: an update rejected as a conflict is tried again.
CreateOrUpdateUpdatedRetry(c) ==
    IF c.err = "Conflict" THEN [c EXCEPT !.pc = "update"] ELSE Return(c, c.err)

\* Faulty variant: an update that succeeded is issued once more.
CreateOrUpdateUpdatedTwice(c) ==
    IF c.err = "nil" /\ Len(c.trace) < 3 THEN [c EXCEPT !.pc = "update"]
    ELSE Return(c, c.err)

\* Faulty variant: an update that failed is issued again until it succeeds.
CreateOrUpdateUpdatedPoll(c) ==
    IF c.err # "nil" THEN [c EXCEPT !.pc = "update"] ELSE Return(c, c.err)

\* return s.UpdateStatefulSet(namespace, statefulSet)
CreateOrUpdateUpdated(c) == Return(c, c.err)

\* GetStatefulSetPods after its GetStatefulSet.
GetStatefulSetPodsFetched(c) ==
    IF c.err # "nil" THEN Return(c, c.err) ELSE [c EXCEPT !.pc = "listpods"]


\* ------------------------------------------------------------- actions
\* A caller may start an operation when it runs none.
CanStart(p) == calls[p].pc \in {"idle", "done"} /\ ncalls < MaxCalls

\* The record of an operation that starts: op(ns, o).
Begin(op, ns, o) ==
    [IdleCall EXCEPT !.pc = "running", !.op = op, !.ns = ns, !.obj = o, !.arg = o]

\* The argument of an operation that takes a name, not an object.
Named(name) == [NoObj EXCEPT !.name = name]

At(p, op, pc) == calls[p].op = op /\ calls[p].pc = pc

\* GetStatefulSet(namespace, name)
CallGetStatefulSet(p, ns, name, fault) ==
    /\ CanStart(p)
    /\ LET c == GetStatefulSet(Begin("GetStatefulSet", ns, Named(name)), ns, name,
                               ApiGet(ns, name, fault))
       IN  calls' = [calls EXCEPT ![p] = Return(c, c.err)]
    /\ ncalls' = ncalls + 1
    /\ UNCHANGED <<store, nextRV, pods>>

\* GetStatefulSetPods(namespace, name), up to the answer of its Get.
CallGetStatefulSetPods(p, ns, name, fault) ==
    /\ CanStart(p)
    /\ LET c == GetStatefulSet(Begin("GetStatefulSetPods", ns, Named(name)), ns, name,
                               ApiGet(ns, name, fault))
       IN  calls' = [calls EXCEPT ![p] = GetStatefulSetPodsFetched(c)]
    /\ ncalls' = ncalls + 1
    /\ UNCHANGED <<store, nextRV, pods>>

\* GetStatefulSetPods: the selector, built in whatever order the range over
\* the match-labels enumerates them, and the pod List.
StepListPods(p, fault) ==
    /\ At(p, "GetStatefulSetPods", "listpods")
    /\ \E order \in RangeOrders(MatchLabels(calls[p].stored.spec)) :
          LET c == ListSelectedPods(calls[p], calls[p].ns, BuildSelector(order),
                                    ApiListPods(calls[p].ns, BuildSelector(order), fault))
          IN  calls' = [calls EXCEPT ![p] = Return(c, c.err)]
    /\ UNCHANGED <<store, nextRV, pods, ncalls>>

\* CreateStatefulSet(namespace, statefulSet)
CallCreateStatefulSet(p, ns, o, fault) ==
    /\ CanStart(p)
    /\ LET r == ApiCreate(ns, o, fault)
           c == CreateStatefulSet(Begin("CreateStatefulSet", ns, o), ns, o, r.err)
       IN  /\ calls' = [calls EXCEPT ![p] = Return(c, c.err)]
           /\ store' = r.store
           /\ nextRV' = r.nextRV
    /\ ncalls' = ncalls + 1
    /\ UNCHANGED pods

\* UpdateStatefulSet(namespace, statefulSet)
CallUpdateStatefulSet(p, ns, o, fault) ==
    /\ CanStart(p)
    /\ LET r == ApiUpdate(ns, o, fault)
           c == UpdateStatefulSet(Begin("UpdateStatefulSet", ns, o), ns, o, r.err)
       IN  /\ calls' = [calls EXCEPT ![p] = Return(c, c.err)]
           /\ store' = r.store
           /\ nextRV' = r.nextRV
    /\ ncalls' = ncalls + 1
    /\ UNCHANGED pods

\* CreateOrUpdateStatefulSet(namespace, statefulSet), up to the answer of
\* its GetStatefulSet and the branch taken on it.
CallCreateOrUpdateStatefulSet(p, ns, o, fault) ==
    /\ CanStart(p)
    /\ LET c == GetStatefulSet(Begin("CreateOrUpdateStatefulSet", ns, o), ns, o.name,
                               ApiGet(ns, o.name, fault))
       IN  calls' = [calls EXCEPT ![p] = CreateOrUpdateFetched(c)]
    /\ ncalls' = ncalls + 1
    /\ UNCHANGED <<store, nextRV, pods>>

\* Faulty variant: the create goes to one fixed namespace, not the caller's.
StepCreateFixedNamespace(p, fault) ==
    /\ At(p, "CreateOrUpdateStatefulSet", "create")
    /\ LET r == ApiCreate("ns-a", calls[p].obj, fault)
           c == CreateStatefulSet(calls[p], "ns-a", calls[p].obj, r.err)
       IN  /\ calls' = [calls EXCEPT ![p] = CreateOrUpdateCreated(c)]
           /\ store' = r.store
           /\ nextRV' = r.nextRV
    /\ UNCHANGED <<pods, ncalls>>

\* CreateOrUpdateStatefulSet: the create of an object that was not found.
StepCreate(p, fault) ==
    /\ At(p, "CreateOrUpdateStatefulSet", "create")
    /\ LET r == ApiCreate(calls[p].ns, calls[p].obj, fault)
           c == CreateStatefulSet(calls[p], calls[p].ns, calls[p].obj, r.err)
       IN  /\ calls' = [calls EXCEPT ![p] = CreateOrUpdateCreated(c)]
           /\ store' = r.store
           /\ nextRV' = r.nextRV
    /\ UNCHANGED <<pods, ncalls>>

\* CreateOrUpdateStatefulSet: the update of the object that was fetched.
StepUpdate(p, fault) ==
    /\ At(p, "CreateOrUpdateStatefulSet", "update")
    /\ LET r == ApiUpdate(calls[p].ns, calls[p].obj, fault)
           c == UpdateStatefulSet(calls[p], calls[p].ns, calls[p].obj, r.err)
       IN  /\ calls' = [calls EXCEPT ![p] = CreateOrUpdateUpdated(c)]
           /\ store' = r.store
           /\ nextRV' = r.nextRV
    /\ UNCHANGED <<pods, ncalls>>

\* DeleteStatefulSet(namespace, name)
CallDeleteStatefulSet(p, ns, name, fault) ==
    /\ CanStart(p)
    /\ LET r == ApiDelete(ns, name, DeletePropagation, fault)
           c == DeleteStatefulSet(Begin("DeleteStatefulSet", ns, Named(name)), ns, name, r.err)
       IN  /\ calls' = [calls EXCEPT ![p] = Return(c, c.err)]
           /\ store' = r.store
           /\ nextRV' = r.nextRV
    /\ ncalls' = ncalls + 1
    /\ UNCHANGED pods

\* ListStatefulSets(namespace)
CallListStatefulSets(p, ns, fault) ==
    /\ CanStart(p)
    /\ LET c == ListStatefulSets(Begin("ListStatefulSets", ns, NoObj), ns, ApiList(ns, fault))
       IN  calls' = [calls EXCEPT ![p] = Return(c, c.err)]
    /\ ncalls' = ncalls + 1
    /\ UNCHANGED <<store, nextRV, pods>>

\* The cluster's garbage collector removes a dependent of an object that
\* is being deleted (or is gone).
GCDeleteDependent(pod) ==
    /\ pod \in pods
    /\ store[PodOwner(pod)].deleting \/ ~Exists(store[PodOwner(pod)])
    /\ pods' = pods \ {pod}
    /\ UNCHANGED <<store, nextRV, calls, ncalls>>

\* ... and removes the object being deleted once it has no dependent left.
GCFinalize(k) ==
    /\ store[k].deleting
    /\ \A pod \in pods : PodOwner(pod) # k
    /\ store' = [store EXCEPT ![k] = Absent]
    /\ UNCHANGED <<nextRV, pods, calls, ncalls>>

\* The cluster before the service is used: any objects, each with the
\* token of its last write, and the pods of the existing owners.
InitialObject == [spec |-> "s1", rv |-> 1, deleting |-> FALSE]

Init ==
    /\ store \in [Keys -> {Absent, InitialObject}]
    /\ \A k \in Keys : k[2] \notin Names => ~Exists(store[k])
    /\ nextRV = 2
    /\ pods = {pod \in PodIds : Exists(store[PodOwner(pod)])}
    /\ calls = [p \in Procs |-> IdleCall]
    /\ ncalls = 0

StepFaults == Faults \cup {NoFault}

Next ==
    \/ \E p \in Procs, ns \in Namespaces, name \in Names, fault \in StepFaults :
          CallGetStatefulSet(p, ns, name, fault)
    \/ \E p \in Procs, ns \in Namespaces, name \in Names, fault \in StepFaults :
          CallGetStatefulSetPods(p, ns, name, fault)
    \/ \E p \in Procs, fault \in StepFaults : StepListPods(p, fault)
    \/ \E p \in Procs, ns \in Namespaces, o \in DesiredObjects, fault \in StepFaults :
          CallCreateStatefulSet(p, ns, o, fault)
    \/ \E p \in Procs, ns \in Namespaces, o \in DesiredObjects, fault \in StepFaults :
          CallUpdateStatefulSet(p, ns, o, fault)
    \/ \E p \in Procs, ns \in Namespaces, o \in DesiredObjects, fault \in StepFaults :
          CallCreateOrUpdateStatefulSet(p, ns, o, fault)
    \/ \E p \in Procs, fault \in StepFaults : StepCreate(p, fault)
    \/ \E p \in Procs, fault \in StepFaults : StepUpdate(p, fault)
    \/ \E p \in Procs, ns \in Namespaces, name \in Names, fault \in StepFaults :
          CallDeleteStatefulSet(p, ns, name, fault)
    \/ \E p \in Procs, ns \in Namespaces, fault \in StepFaults :
          CallListStatefulSets(p, ns, fault)
    \/ \E pod \in PodIds : GCDeleteDependent(pod)
    \/ \E k \in Keys : GCFinalize(k)

Spec == Init /\ [][Next]_vars

\* The synchronizer alone: callers run CreateOrUpdateStatefulSet and
\* DeleteStatefulSet concurrently, and the garbage collector runs.
NextSync ==
    \/ \E p \in Procs, ns \in Namespaces, o \in DesiredObjects, fault \in StepFaults :
          CallCreateOrUpdateStatefulSet(p, ns, o, fault)
    \/ \E p \in Procs, fault \in StepFaults : StepCreate(p, fault)
    \/ \E p \in Procs, fault \in StepFaults : StepUpdate(p, fault)
    \/ \E p \in Procs, ns \in Namespaces, name \in Names, fault \in StepFaults :
          CallDeleteStatefulSet(p, ns, name, fault)
    \/ \E pod \in PodIds : GCDeleteDependent(pod)
    \/ \E k \in Keys : GCFinalize(k)

SpecSync == Init /\ [][NextSync]_vars

\* One caller alone, a store that never fails: the caller synchronizes an
\* object the store does not hold, then again and again the same object.
IdemCall(p, ns, o) ==
    /\ \A q \in Procs \ {p} : calls[q].pc = "idle"
    /\ IF calls[p].pc = "idle"
       THEN ~Exists(store[<<ns, o.name>>])
       ELSE ns = calls[p].ns /\ o = calls[p].obj
    /\ CallCreateOrUpdateStatefulSet(p, ns, o, NoFault)

NextIdem ==
    \/ \E p \in Procs, ns \in Namespaces, o \in DesiredObjects : IdemCall(p, ns, o)
    \/ \E p \in Procs : StepCreate(p, NoFault)
    \/ \E p \in Procs : StepUpdate(p, NoFault)

SpecIdem == Init /\ [][NextIdem]_vars

\* Deletion and what callers observe of it: callers fetch, delete and
\* create objects while the garbage collector removes dependents.
NextCascade ==
    \/ \E p \in Procs, ns \in Namespaces, name \in Names, fault \in StepFaults :
          CallGetStatefulSet(p, ns, name, fault)
    \/ \E p \in Procs, ns \in Namespaces, name \in Names, fault \in StepFaults :
          CallDeleteStatefulSet(p, ns, name, fault)
    \/ \E p \in Procs, ns \in Namespaces, o \in DesiredObjects, fault \in StepFaults :
          CallCreateStatefulSet(p, ns, o, fault)
    \/ \E pod \in PodIds : GCDeleteDependent(pod)
    \/ \E k \in Keys : GCFinalize(k)

SpecCascade == Init /\ [][NextCascade]_vars

\* Callers that work on different objects: a caller starts a
\* CreateOrUpdateStatefulSet only on an object that is not the object of
\* another caller's call.  The objects differ by namespace or by name, and
\* each may exist or not at the start.
InitApart ==
    /\ store \in [Keys -> {Absent, InitialObject}]
    /\ \A k \in Keys \ ApartKeys : ~Exists(store[k])
    /\ nextRV = 2
    /\ pods = {pod \in PodIds : Exists(store[PodOwner(pod)])}
    /\ calls = [p \in Procs |-> IdleCall]
    /\ ncalls = 0

CallApart(p, ns, o, fault) ==
    /\ <<ns, o.name>> \in ApartKeys
    /\ \A q \in Procs \ {p} :
          calls[q].pc = "idle" \/ <<calls[q].ns, calls[q].arg.name>> # <<ns, o.name>>
    /\ CallCreateOrUpdateStatefulSet(p, ns, o, fault)

NextApart ==
    \/ \E p \in Procs, ns \in Namespaces, o \in ApartObjects, fault \in StepFaults :
          CallApart(p, ns, o, fault)
    \/ \E p \in Procs, fault \in StepFaults : StepCreate(p, fault)
    \/ \E p \in Procs, fault \in StepFaults : StepUpdate(p, fault)

SpecApart == InitApart /\ [][NextApart]_vars

\* The pods of a StatefulSet: callers run GetStatefulSetPods on
\* StatefulSets that exist or not, with two, one or no match-labels, in a
\* cluster that holds pods of several label sets in both namespaces.
InitPods ==
    /\ store \in [Keys -> {Absent} \cup
                          {[InitialObject EXCEPT !.spec = s] : s \in Specs \cup {NoLabelsSpec}}]
    /\ \A k \in Keys : k[2] \notin Names => ~Exists(store[k])
    /\ nextRV = 2
    /\ pods \in SUBSET PodIds
    /\ calls = [p \in Procs |-> IdleCall]
    /\ ncalls = 0

NextPods ==
    \/ \E p \in Procs, ns \in Namespaces, name \in Names, fault \in StepFaults :
          CallGetStatefulSetPods(p, ns, name, fault)
    \/ \E p \in Procs, fault \in StepFaults : StepListPods(p, fault)

SpecPods == InitPods /\ [][NextPods]_vars

\* Callers that race: CreateOrUpdateStatefulSet calls on any objects, the
\* same or not, and no other writer.
NextRace ==
    \/ \E p \in Procs, ns \in Namespaces, o \in DesiredObjects, fault \in StepFaults :
          CallCreateOrUpdateStatefulSet(p, ns, o, fault)
    \/ \E p \in Procs, fault \in StepFaults : StepCreate(p, fault)
    \/ \E p \in Procs, fault \in StepFaults : StepUpdate(p, fault)

SpecRace == Init /\ [][NextRace]_vars

\* Convergence: one caller runs CreateOrUpdateStatefulSet with one desired
\* object and runs it again, with the same object, after every call that
\* returned an error.  Other clients write and delete objects and the
\* garbage collector runs.  Here ncalls counts the disturbances, the store
\* calls answered with a fault and the other clients' writes: there are at
\* most MaxCalls of them, so both stop in the end.
Caller == "p1"

Disturbed(fault) == IF fault # NoFault THEN 1 ELSE 0

CallerInvoke(ns, o, fault) ==
    /\ \/ calls[Caller].pc = "idle"
       \/ /\ calls[Caller].pc = "done" /\ calls[Caller].ret # "nil"
          /\ ns = calls[Caller].ns /\ o = calls[Caller].arg
    /\ ncalls + Disturbed(fault) <= MaxCalls
    /\ LET c == GetStatefulSet(Begin("CreateOrUpdateStatefulSet", ns, o), ns, o.name,
                               ApiGet(ns, o.name, fault))
       IN  calls' = [calls EXCEPT ![Caller] = CreateOrUpdateFetched(c)]
    /\ ncalls' = ncalls + Disturbed(fault)
    /\ UNCHANGED <<store, nextRV, pods>>

CallerCreate(fault) ==
    /\ At(Caller, "CreateOrUpdateStatefulSet", "create")
    /\ ncalls + Disturbed(fault) <= MaxCalls
    /\ LET r == ApiCreate(calls[Caller].ns, calls[Caller].obj, fault)
           c == CreateStatefulSet(calls[Caller], calls[Caller].ns, calls[Caller].obj, r.err)
       IN  /\ calls' = [calls EXCEPT ![Caller] = CreateOrUpdateCreated(c)]
           /\ store' = r.store
           /\ nextRV' = r.nextRV
    /\ ncalls' = ncalls + Disturbed(fault)
    /\ UNCHANGED pods

CallerUpdate(fault) ==
    /\ At(Caller, "CreateOrUpdateStatefulSet", "update")
    /\ ncalls + Disturbed(fault) <= MaxCalls
    /\ LET r == ApiUpdate(calls[Caller].ns, calls[Caller].obj, fault)
           c == UpdateStatefulSet(calls[Caller], calls[Caller].ns, calls[Caller].obj, r.err)
       IN  /\ calls' = [calls EXCEPT ![Caller] = CreateOrUpdateUpdated(c)]
           /\ store' = r.store
           /\ nextRV' = r.nextRV
    /\ ncalls' = ncalls + Disturbed(fault)
    /\ UNCHANGED pods

\* Another client writes the content s under (ns, name): it creates the
\* object, or updates it with the token it holds now.
OtherWrites(ns, name, s) ==
    /\ ncalls < MaxCalls
    /\ LET k == <<ns, name>>
           r == IF Exists(store[k])
                THEN ApiUpdate(ns, [name |-> name, spec |-> s, rv |-> store[k].rv], NoFault)
                ELSE ApiCreate(ns, [name |-> name, spec |-> s, rv |-> 0], NoFault)
       IN  store' = r.store /\ nextRV' = r.nextRV
    /\ ncalls' = ncalls + 1
    /\ UNCHANGED <<pods, calls>>

\* Another client deletes the object under (ns, name).
OtherDeletes(ns, name) ==
    /\ ncalls < MaxCalls
    /\ Exists(store[<<ns, name>>]) /\ ~store[<<ns, name>>].deleting
    /\ LET r == ApiDelete(ns, name, "Foreground", NoFault)
       IN  store' = r.store /\ nextRV' = r.nextRV
    /\ ncalls' = ncalls + 1
    /\ UNCHANGED <<pods, calls>>

CallerStep ==
    \/ \E ns \in Namespaces, o \in DesiredObjects, fault \in StepFaults :
          CallerInvoke(ns, o, fault)
    \/ \E fault \in StepFaults : CallerCreate(fault)
    \/ \E fault \in StepFaults : CallerUpdate(fault)

NextConverge ==
    \/ \E ns \in Namespaces, o \in DesiredObjects, fault \in StepFaults :
          CallerInvoke(ns, o, fault)
    \/ \E fault \in StepFaults : CallerCreate(fault)
    \/ \E fault \in StepFaults : CallerUpdate(fault)
    \/ \E ns \in Namespaces, name \in Names, s \in Specs : OtherWrites(ns, name, s)
    \/ \E ns \in Namespaces, name \in Names : OtherDeletes(ns, name)
    \/ \E pod \in PodIds : GCDeleteDependent(pod)
    \/ \E k \in Keys : GCFinalize(k)

\* The caller keeps going: a call in progress makes its next store call,
\* and a call that returned an error is followed by another call.
SpecConverge == Init /\ [][NextConverge]_vars /\ WF_vars(CallerStep)

\* ----------------------------------------------------------- outcomes
\* What the properties below read off a caller's operation record.
IsCou(c) == c.op = "CreateOrUpdateStatefulSet"
IsDone(c) == c.pc = "done"
Writes(c) == {i \in 1..Len(c.trace) : c.trace[i].verb \in {"CREATE", "UPDATE"}}
Issued(c, verb) == {i \in 1..Len(c.trace) : c.trace[i].verb = verb}
Fetch(c) == c.trace[1]
LastCall(c) == c.trace[Len(c.trace)]

\* The outcome of a finished CreateOrUpdateStatefulSet, by the last call it
\* made to the store and that call's result.
Outcome(c) ==
    IF LastCall(c).verb = "GET" THEN "FetchFailed"
    ELSE IF LastCall(c).verb = "CREATE"
    THEN (IF LastCall(c).err = "nil" THEN "Created" ELSE "CreateFailed")
    ELSE (IF LastCall(c).err = "nil" THEN "Updated" ELSE "UpdateFailed")

\* C1: a CreateOrUpdate call whose fetch returned NotFound issues no update,
\* goes on to the create, and has, when it returns, issued exactly one
\* create, of the desired object as the caller gave it, whatever the
\* create's result.
AbsenceCreatesOnce ==
    \A p \in Procs :
        LET c == calls[p] IN
        (IsCou(c) /\ Fetch(c).err = "NotFound") =>
            /\ Issued(c, "UPDATE") = {}
            /\ Issued(c, "GET") = {1}
            /\ ~IsDone(c) => (c.pc = "create" /\ Issued(c, "CREATE") = {})
            /\ IsDone(c) =>
                  /\ Issued(c, "CREATE") = {2}
                  /\ c.trace[2].ns = c.ns
                  /\ c.trace[2].name = c.arg.name
                  /\ c.trace[2].spec = c.arg.spec
                  /\ c.trace[2].rv = c.arg.rv

AbsenceCreatesOnceWitness ==
    \E p \in Procs :
        /\ IsCou(calls[p]) /\ IsDone(calls[p])
        /\ Fetch(calls[p]).err = "NotFound"
        /\ calls[p].trace[2].verb = "CREATE"
        /\ calls[p].trace[2].err = "nil"
        /\ store[<<calls[p].ns, calls[p].arg.name>>].spec = calls[p].arg.spec

\* C2: once the fetch of a CreateOrUpdate call has returned a stored object
\* with token V, the desired object carries V and every update the call
\* issues passes V, whatever token the caller had put on the object.
UpdateCarriesFetchedToken ==
    \A p \in Procs :
        LET c == calls[p] IN
        (IsCou(c) /\ Fetch(c).err = "nil") =>
            /\ Fetch(c).rv # 0
            /\ c.stored.rv = Fetch(c).rv
            /\ c.obj.rv = Fetch(c).rv
            /\ \A i \in Issued(c, "UPDATE") : c.trace[i].rv = Fetch(c).rv

\* ... reached with a caller's token that is set and wrong.
UpdateCarriesFetchedTokenWitness ==
    \E p \in Procs :
        /\ IsCou(calls[p]) /\ IsDone(calls[p])
        /\ Fetch(calls[p]).err = "nil"
        /\ Issued(calls[p], "UPDATE") = {2}
        /\ calls[p].arg.rv # 0
        /\ calls[p].arg.rv # Fetch(calls[p]).rv
        /\ calls[p].ret = "nil"

\* C3: a CreateOrUpdate call whose fetch failed with an error other than
\* NotFound has returned that error after the fetch alone: no create and no
\* update was issued, so the call wrote nothing to the store.
FetchFailureShortCircuits ==
    \A p \in Procs :
        LET c == calls[p] IN
        (IsCou(c) /\ Fetch(c).err \notin {"nil", "NotFound"}) =>
            /\ IsDone(c)
            /\ Len(c.trace) = 1
            /\ Writes(c) = {}
            /\ c.ret = Fetch(c).err
            /\ Outcome(c) = "FetchFailed"

FetchFailureShortCircuitsWitness ==
    \E p \in Procs :
        /\ IsCou(calls[p]) /\ IsDone(calls[p])
        /\ Fetch(calls[p]).err = "Forbidden"
        /\ calls[p].ret = "Forbidden"
        /\ ~Exists(store[<<calls[p].ns, calls[p].arg.name>>])

\* C4: a CreateOrUpdate call whose fetch returned NotFound and whose create
\* failed has returned the create's error, and issued no update.
CreateFailureSurfaces ==
    \A p \in Procs :
        LET c == calls[p] IN
        (/\ IsCou(c) /\ Len(c.trace) >= 2
         /\ Fetch(c).err = "NotFound"
         /\ c.trace[2].verb = "CREATE" /\ c.trace[2].err # "nil") =>
            /\ IsDone(c)
            /\ c.ret = c.trace[2].err
            /\ Outcome(c) = "CreateFailed"
            /\ Len(c.trace) = 2
            /\ Issued(c, "UPDATE") = {}

\* ... reached by a call that lost the race for the name to another call.
CreateFailureSurfacesWitness ==
    \E p, q \in Procs :
        /\ IsCou(calls[p]) /\ IsDone(calls[p])
        /\ Fetch(calls[p]).err = "NotFound"
        /\ calls[p].trace[2].verb = "CREATE"
        /\ calls[p].ret = "AlreadyExists"
        /\ IsCou(calls[q]) /\ IsDone(calls[q])
        /\ Outcome(calls[q]) = "Created"
        /\ calls[q].ns = calls[p].ns /\ calls[q].arg.name = calls[p].arg.name

\* C5: in every state of every interleaving, an update a CreateOrUpdate call
\* has issued or is about to issue follows a successful fetch of that same
\* call and carries the token that fetch returned, and a call whose fetch
\* succeeded has issued no create and is not about to.
UpdateOnlyAfterOwnFetch ==
    \A p \in Procs :
        LET c == calls[p] IN
        IsCou(c) =>
            /\ Fetch(c).verb = "GET"
            /\ Fetch(c).ns = c.ns /\ Fetch(c).name = c.arg.name
            /\ (Issued(c, "UPDATE") # {} \/ c.pc = "update") =>
                  /\ Fetch(c).err = "nil"
                  /\ c.obj.rv = Fetch(c).rv
                  /\ \A i \in Issued(c, "UPDATE") : i > 1 /\ c.trace[i].rv = Fetch(c).rv
            /\ Fetch(c).err = "nil" => (Issued(c, "CREATE") = {} /\ c.pc # "create")

\* ... reached with two calls interleaved on one object: one has updated
\* it while the other, which fetched before that, is about to.
UpdateOnlyAfterOwnFetchWitness ==
    \E p, q \in Procs :
        /\ p # q
        /\ IsCou(calls[p]) /\ IsDone(calls[p]) /\ Outcome(calls[p]) = "Updated"
        /\ IsCou(calls[q]) /\ calls[q].pc = "update"
        /\ calls[q].ns = calls[p].ns /\ calls[q].arg.name = calls[p].arg.name
        /\ calls[q].obj.rv = Fetch(calls[p]).rv

\* C6: one caller, no other writer, no store failure, an object the store
\* does not hold (SpecIdem).  The first call ends Created after a fetch and
\* a create, and leaves the object under the token the store assigned; the
\* second call, with the same desired object, fetches that token, and ends
\* Updated after a fetch and an update carrying it, with the stored content
\* equal to the desired content.
IdempotentCreatedThenUpdated ==
    [][\A p \in Procs :
          LET c == calls[p]
              d == calls'[p]
              k == <<d.ns, d.arg.name>>
          IN  /\ (ncalls' = 1 /\ IsDone(d) /\ ~IsDone(c)) =>
                    /\ Outcome(d) = "Created"
                    /\ Len(d.trace) = 2
                    /\ Fetch(d).verb = "GET" /\ d.trace[2].verb = "CREATE"
                    /\ d.ret = "nil"
                    /\ store'[k].spec = d.arg.spec
                    /\ store'[k].rv = nextRV
              /\ (ncalls = 1 /\ ncalls' = 2 /\ d # c) =>
                    /\ IsDone(c) /\ Outcome(c) = "Created"
                    /\ d.ns = c.ns /\ d.arg = c.arg
                    /\ store[k].rv + 1 = nextRV
                    /\ Fetch(d).err = "nil"
                    /\ Fetch(d).rv = store[k].rv
              /\ (ncalls' = 2 /\ IsDone(d) /\ ~IsDone(c)) =>
                    /\ Outcome(d) = "Updated"
                    /\ Len(d.trace) = 2
                    /\ Fetch(d).verb = "GET" /\ d.trace[2].verb = "UPDATE"
                    /\ d.trace[2].rv = Fetch(d).rv
                    /\ d.ret = "nil"
                    /\ store'[k].spec = d.arg.spec
                    /\ store'[k].deleting = FALSE
                    /\ d.obj.spec = d.arg.spec /\ d.obj.name = d.arg.name
    ]_vars

\* ... reached by a second call that ended Updated and left the desired
\* content in the store.
IdempotentCreatedThenUpdatedWitness ==
    \E p \in Procs :
        /\ ncalls = 2
        /\ IsCou(calls[p]) /\ IsDone(calls[p])
        /\ Outcome(calls[p]) = "Updated"
        /\ calls[p].arg.spec = "s2"
        /\ store[<<calls[p].ns, calls[p].arg.name>>].spec = "s2"

\* C7: when the stored object's token is no longer the one a CreateOrUpdate
\* call fetched (another writer wrote it), the call's update fails and the
\* call returns the update's error at once, after its one fetch and one
\* update: the error is the store's Conflict unless the request failed
\* before the store compared tokens (Forbidden, Timeout), and the store,
\* with the other writer's object, is left as it was.
StaleUpdateIsRejected ==
    [][\A p \in Procs :
          LET c == calls[p]
              d == calls'[p]
              k == <<c.ns, c.arg.name>>
          IN  (/\ At(p, "CreateOrUpdateStatefulSet", "update")
               /\ d # c
               /\ Exists(store[k])
               /\ store[k].rv # c.stored.rv) =>
                  /\ IsDone(d)
                  /\ Len(d.trace) = 2
                  /\ Issued(d, "GET") = {1} /\ Issued(d, "UPDATE") = {2}
                  /\ d.trace[2].err # "nil"
                  /\ d.trace[2].err \notin Faults => d.trace[2].err = "Conflict"
                  /\ d.ret = d.trace[2].err
                  /\ Outcome(d) = "UpdateFailed"
                  /\ store' = store
                  /\ nextRV' = nextRV
    ]_vars

\* ... reached by a call that returned Conflict while the store holds the
\* content another call wrote after this call's fetch.
StaleUpdateIsRejectedWitness ==
    \E p, q \in Procs :
        /\ IsCou(calls[p]) /\ IsDone(calls[p])
        /\ calls[p].ret = "Conflict"
        /\ Outcome(calls[p]) = "UpdateFailed"
        /\ IsCou(calls[q]) /\ Outcome(calls[q]) = "Updated"
        /\ store[<<calls[p].ns, calls[p].arg.name>>].spec = calls[q].arg.spec
        /\ calls[q].arg.spec # calls[p].arg.spec
        /\ store[<<calls[p].ns, calls[p].arg.name>>].rv # Fetch(calls[p]).rv

\* C8: a finished CreateOrUpdate call that returned nil made a write (its
\* last call to the store) and the store accepted it; a call whose create or
\* update the store refused, or that made no write, returned an error.
WriteFailureNeverMasked ==
    \A p \in Procs :
        LET c == calls[p] IN
        (IsCou(c) /\ IsDone(c)) =>
            /\ c.ret = "nil" =>
                  /\ Writes(c) = {Len(c.trace)}
                  /\ LastCall(c).err = "nil"
            /\ \A i \in Writes(c) : c.trace[i].err # "nil" => c.ret # "nil"

\* ... reached with one call whose update the store accepted and one whose
\* update it refused.
WriteFailureNeverMaskedWitness ==
    \E p, q \in Procs :
        /\ IsCou(calls[p]) /\ IsDone(calls[p])
        /\ Outcome(calls[p]) = "Updated" /\ calls[p].ret = "nil"
        /\ IsCou(calls[q]) /\ IsDone(calls[q])
        /\ Outcome(calls[q]) = "UpdateFailed" /\ calls[q].ret = "Timeout"

\* The five outcomes.
Outcomes == {"Created", "Updated", "FetchFailed", "CreateFailed", "UpdateFailed"}

Report(call) ==
    [ns |-> call.ns, kind |-> call.kind, name |-> call.name, verb |-> call.verb,
     err |-> call.err]

\* C10, as claimed: the reports an operation has made to the sink are, in
\* order, the calls it has made to the store, each with its verb and error.
EveryStoreCallReported ==
    \A p \in Procs :
        /\ Len(calls[p].sink) = Len(calls[p].trace)
        /\ \A i \in 1..Len(calls[p].trace) :
              calls[p].sink[i] = Report(calls[p].trace[i])

\* The dependents of the object under key k that are alive.
Dependents(k) == {pod \in pods : PodOwner(pod) = k}

\* C11: DeleteStatefulSet asks for foreground propagation, so after a
\* delete that returned nil the object is still stored, marked as being
\* deleted, as long as one of its dependents is alive; no object is gone
\* while a dependent of it is alive; and a fetch that returned NotFound
\* found no dependent of the object left.
ForegroundDeleteKeepsObject ==
    /\ \A k \in Keys : Dependents(k) # {} => Exists(store[k])
    /\ \A p \in Procs :
          LET c == calls[p]
              k == <<c.ns, c.arg.name>>
          IN  /\ (/\ c.op = "DeleteStatefulSet" /\ IsDone(c) /\ c.ret = "nil"
                  /\ Dependents(k) # {}) =>
                     (Exists(store[k]) /\ store[k].deleting)
              /\ (/\ c.op = "GetStatefulSet" /\ IsDone(c)
                  /\ c.ret = "NotFound") => Dependents(k) = {}

\* ... reached by a fetch that still succeeded after a delete returned
\* nil, while a dependent of the object was alive.
ForegroundDeleteKeepsObjectWitness ==
    \E p, q \in Procs :
        /\ calls[p].op = "DeleteStatefulSet" /\ IsDone(calls[p]) /\ calls[p].ret = "nil"
        /\ calls[q].op = "GetStatefulSet" /\ IsDone(calls[q]) /\ calls[q].ret = "nil"
        /\ calls[q].ns = calls[p].ns /\ calls[q].arg.name = calls[p].arg.name
        /\ calls[q].stored.deleting
        /\ Dependents(<<calls[p].ns, calls[p].arg.name>>) # {}
        /\ Dependents(<<calls[p].ns, calls[p].arg.name>>) # PodIds

\* C12: a CreateOrUpdate call makes at most two calls to the store, first
\* its fetch and then at most one create or update; a call that has not
\* returned has made the fetch alone and its one write is ready to be
\* issued, and a call that has made its write has returned, whatever the
\* store answered.
AtMostTwoStoreCalls ==
    \A p \in Procs :
        LET c == calls[p] IN
        IsCou(c) =>
            /\ Len(c.trace) \in {1, 2}
            /\ Fetch(c).verb = "GET"
            /\ Len(c.trace) = 2 =>
                  /\ c.trace[2].verb \in {"CREATE", "UPDATE"}
                  /\ IsDone(c)
            /\ ~IsDone(c) =>
                  /\ Len(c.trace) = 1
                  /\ c.pc \in {"create", "update"}
                  /\ \A fault \in StepFaults :
                        ENABLED (StepCreate(p, fault) \/ StepUpdate(p, fault))

\* ... reached with a call that returned after a fetch alone and a call
\* that returned after a fetch and a write the store refused.
AtMostTwoStoreCallsWitness ==
    \E p, q \in Procs :
        /\ IsCou(calls[p]) /\ IsDone(calls[p]) /\ Len(calls[p].trace) = 1
        /\ IsCou(calls[q]) /\ IsDone(calls[q]) /\ Len(calls[q].trace) = 2
        /\ calls[q].trace[2].err = "Timeout"
        /\ calls[q].ret = "Timeout"

\* The object a call works on.
KeyOf(c) == <<c.ns, c.arg.name>>

\* What a call's fetch saw of its object: the stored object, or none.
Seen(c) == IF Fetch(c).err = "nil" THEN c.stored ELSE Absent

\* C13: CreateOrUpdate calls that run concurrently on different objects
\* (SpecApart) do not interfere.  Every call of a call to the store names
\* the call's own namespace and name, a step of a call leaves every other
\* object as it is, and when a call issues its write its object is still
\* what its fetch saw, so the write does what it does when the call runs
\* alone: it fails only if the request fails (never AlreadyExists, Conflict
\* or NotFound), and otherwise the object holds the call's desired content.
DifferentObjectsIndependent ==
    [][\A p \in Procs :
          LET c == calls[p]
              d == calls'[p]
              k == KeyOf(d)
          IN  (IsCou(d) /\ d # c) =>
                 /\ \A i \in 1..Len(d.trace) :
                       d.trace[i].ns = d.ns /\ d.trace[i].name = d.arg.name
                 /\ \A j \in Keys \ {k} : store'[j] = store[j]
                 /\ (IsCou(c) /\ ~IsDone(c)) =>
                       /\ KeyOf(c) = k
                       /\ store[k] = Seen(c)
                       /\ IsDone(d)
                       /\ d.ret \in Faults \cup {"nil"}
                       /\ d.ret # "nil" => store'[k] = store[k]
                       /\ d.ret = "nil" =>
                             /\ store'[k].spec = d.arg.spec
                             /\ store'[k].rv = nextRV
                             /\ Outcome(d) = (IF Exists(Seen(c)) THEN "Updated"
                                              ELSE "Created")
    ]_vars

\* ... reached with two calls that ran interleaved, one in a namespace on
\* two names, the other on the same name in another namespace: one created
\* its object, the other updated its object, each holds its call's content.
DifferentObjectsIndependentWitness ==
    \E p, q \in Procs :
        /\ IsCou(calls[p]) /\ IsDone(calls[p]) /\ Outcome(calls[p]) = "Created"
        /\ IsCou(calls[q]) /\ IsDone(calls[q]) /\ Outcome(calls[q]) = "Updated"
        /\ calls[p].ns = calls[q].ns /\ calls[p].arg.name # calls[q].arg.name
        /\ store[KeyOf(calls[p])].spec = calls[p].arg.spec
        /\ store[KeyOf(calls[q])].spec = calls[q].arg.spec
        /\ calls[q].arg.spec = "s2"
        /\ store[KeyOf(calls[q])].rv < store[KeyOf(calls[p])].rv
        /\ Fetch(calls[p]).err = "NotFound"

\* C14: the desired object of a CreateOrUpdate call keeps the name and the
\* content the caller gave it; its token is the caller's unless the fetch
\* succeeded, and then it is the fetched one; a create is passed the object
\* as the caller gave it, the caller's token included.
DesiredObjectFrame ==
    \A p \in Procs :
        LET c == calls[p] IN
        IsCou(c) =>
            /\ c.obj.name = c.arg.name
            /\ c.obj.spec = c.arg.spec
            /\ Fetch(c).err # "nil" => c.obj = c.arg
            /\ Fetch(c).err = "nil" => c.obj.rv = Fetch(c).rv
            /\ \A i \in Issued(c, "CREATE") :
                  /\ c.trace[i].name = c.arg.name
                  /\ c.trace[i].spec = c.arg.spec
                  /\ c.trace[i].rv = c.arg.rv
            /\ \A i \in Issued(c, "UPDATE") :
                  /\ c.trace[i].name = c.arg.name
                  /\ c.trace[i].spec = c.arg.spec

\* ... reached with a create that was passed the caller's token, and an
\* update whose object took the fetched token and kept a content that is
\* not the stored one.
DesiredObjectFrameWitness ==
    \E p, q \in Procs :
        /\ IsCou(calls[p]) /\ IsDone(calls[p])
        /\ Issued(calls[p], "CREATE") = {2}
        /\ calls[p].arg.rv # 0
        /\ calls[p].trace[2].rv = calls[p].arg.rv
        /\ calls[p].obj = calls[p].arg
        /\ IsCou(calls[q]) /\ IsDone(calls[q])
        /\ Issued(calls[q], "UPDATE") = {2}
        /\ calls[q].obj.rv # calls[q].arg.rv
        /\ calls[q].obj.spec # calls[q].stored.spec

\* C15: a GetStatefulSetPods call that returned nil fetched an existing
\* StatefulSet and returns exactly the pods of the call's namespace whose
\* labels contain every pair of the StatefulSet's match-labels, whatever
\* the order in which the selector string lists the pairs; with no
\* match-labels the selector string is empty and the call returns every
\* pod of the namespace.
SelectedPodsAreTheMatching ==
    \A p \in Procs :
        LET c == calls[p]
            m == MatchLabels(c.stored.spec)
        IN  (c.op = "GetStatefulSetPods" /\ IsDone(c) /\ c.ret = "nil") =>
               /\ Fetch(c).err = "nil" /\ Exists(c.stored)
               /\ Len(c.trace) = 2 /\ c.trace[2].verb = "LIST"
               /\ c.trace[2].ns = c.ns
               /\ c.selector \in {BuildSelector(order) : order \in RangeOrders(m)}
               /\ c.out = {pod \in pods : PodNs(pod) = c.ns /\ m \subseteq PodLabels(pod)}
               /\ m = {} =>
                     /\ c.selector = <<>>
                     /\ c.out = {pod \in pods : PodNs(pod) = c.ns}

\* ... reached by two calls on StatefulSets with the same two match-labels
\* whose selector strings list them in different orders, and that both
\* returned the one matching pod among the pods of the namespace.
SelectedPodsAreTheMatchingWitness ==
    \E p, q \in Procs :
        /\ calls[p].op = "GetStatefulSetPods" /\ IsDone(calls[p]) /\ calls[p].ret = "nil"
        /\ calls[q].op = "GetStatefulSetPods" /\ IsDone(calls[q]) /\ calls[q].ret = "nil"
        /\ calls[p].ns = "ns-a" /\ calls[q].ns = "ns-a"
        /\ Cardinality(MatchLabels(calls[p].stored.spec)) = 2
        /\ calls[p].selector # calls[q].selector
        /\ Len(calls[p].selector) = 7 /\ Len(calls[q].selector) = 7
        /\ calls[p].out = {"pod-0"} /\ calls[q].out = {"pod-0"}
        /\ {"pod-0", "pod-1", "pod-2", "pod-3"} \subseteq pods

\* The caller's latest call returned nil.
Succeeded ==
    IsCou(calls[Caller]) /\ IsDone(calls[Caller]) /\ calls[Caller].ret = "nil"

\* The store holds the caller's object with the desired content (the
\* token aside).
StoredIsDesired ==
    /\ IsCou(calls[Caller])
    /\ Exists(store[KeyOf(calls[Caller])])
    /\ store[KeyOf(calls[Caller])].spec = calls[Caller].arg.spec

\* C16, as amended: the caller that calls again after every failure gets,
\* once faults and other writes have stopped, a call that returns nil; when
\* a call returns nil the stored object has the desired content, and it
\* keeps it until another writer writes or removes the object, which the
\* caller, having succeeded, does not repair.
ConvergesUntilOverwritten ==
    /\ <>[]Succeeded
    /\ [][(calls'[Caller] # calls[Caller] /\ Succeeded') => StoredIsDesired']_vars
    /\ [][(Succeeded /\ StoredIsDesired /\ ~StoredIsDesired') =>
             (calls' = calls /\ store' # store)]_vars

\* ... reached by a call that succeeded after every allowed disturbance
\* had happened, as the latest write to the store.
ConvergesUntilOverwrittenWitness ==
    /\ Succeeded /\ StoredIsDesired
    /\ ncalls = MaxCalls
    /\ nextRV > 3
    /\ store[KeyOf(calls[Caller])].rv = nextRV - 1
    /\ calls[Caller].arg.spec = "s2"

\* C16, as claimed: ... eventually a call returns nil and from then on the
\* stored object has the desired content.
ConvergesAndStays == <>(Succeeded /\ []StoredIsDesired)

\* C17: two CreateOrUpdate calls on one object that both fetched NotFound
\* (no object is removed in SpecRace, so both fetched before any create
\* succeeded).  Neither issues an update; each, when it returns, has issued
\* one create; at most one create succeeds, and exactly one when no create
\* is answered by a fault; the other call returns the store's
\* AlreadyExists; the stored object holds the content of the call whose
\* create succeeded.
RacingCreatesOneWins ==
    \A p, q \in Procs :
        LET c == calls[p]
            d == calls[q]
        IN  (/\ p # q /\ IsCou(c) /\ IsCou(d) /\ KeyOf(c) = KeyOf(d)
             /\ Fetch(c).err = "NotFound" /\ Fetch(d).err = "NotFound") =>
               /\ Issued(c, "UPDATE") = {} /\ c.pc # "update"
               /\ IsDone(c) => (Issued(c, "CREATE") = {2} /\ c.ret = c.trace[2].err)
               /\ ~(c.ret = "nil" /\ d.ret = "nil" /\ IsDone(c) /\ IsDone(d))
               /\ (IsDone(c) /\ c.ret = "nil") =>
                     /\ Exists(store[KeyOf(c)])
                     /\ store[KeyOf(c)].spec = c.arg.spec
                     /\ IsDone(d) => d.ret \in Faults \cup {"AlreadyExists"}
               /\ (IsDone(c) /\ IsDone(d) /\ c.ret \notin Faults /\ d.ret \notin Faults) =>
                     \/ c.ret = "nil" /\ d.ret = "AlreadyExists"
                     \/ d.ret = "nil" /\ c.ret = "AlreadyExists"

\* ... reached by two calls with different contents: the winner's is
\* stored, the loser returned AlreadyExists after its one create.
RacingCreatesOneWinsWitness ==
    \E p, q \in Procs :
        /\ p # q
        /\ IsCou(calls[p]) /\ IsDone(calls[p]) /\ Fetch(calls[p]).err = "NotFound"
        /\ IsCou(calls[q]) /\ IsDone(calls[q]) /\ Fetch(calls[q]).err = "NotFound"
        /\ KeyOf(calls[p]) = KeyOf(calls[q])
        /\ calls[p].ret = "nil" /\ calls[q].ret = "AlreadyExists"
        /\ Len(calls[q].trace) = 2
        /\ calls[p].arg.spec # calls[q].arg.spec
        /\ store[KeyOf(calls[p])].spec = calls[p].arg.spec

\* C18: a CreateOrUpdate call whose fetch succeeded goes on to an update,
\* whether the stored content differs from the desired one or not, and
\* returns after that one update; an update the store accepts is a write:
\* the object gets the desired content and a token it did not have.
FetchedAlwaysUpdates ==
    [][\A p \in Procs :
          LET c == calls[p]
              d == calls'[p]
              k == KeyOf(d)
          IN  /\ (IsCou(d) /\ Fetch(d).err = "nil") =>
                    \/ d.pc = "update" /\ Len(d.trace) = 1
                    \/ IsDone(d) /\ Issued(d, "UPDATE") = {2} /\ Len(d.trace) = 2
              /\ (At(p, "CreateOrUpdateStatefulSet", "update") /\ d # c /\ d.ret = "nil") =>
                    /\ Outcome(d) = "Updated"
                    /\ store'[k].spec = d.arg.spec
                    /\ store'[k].rv = nextRV
                    /\ store'[k].rv # store[k].rv
                    /\ nextRV' = nextRV + 1
    ]_vars

\* ... reached by a call that found the desired content already stored,
\* updated all the same, and left the object under a new token.
FetchedAlwaysUpdatesWitness ==
    \E p \in Procs :
        /\ IsCou(calls[p]) /\ IsDone(calls[p])
        /\ Outcome(calls[p]) = "Updated"
        /\ calls[p].stored.spec = calls[p].arg.spec
        /\ store[KeyOf(calls[p])].spec = calls[p].arg.spec
        /\ store[KeyOf(calls[p])].rv > Fetch(calls[p]).rv

\* C19: a CreateOrUpdate call issues at most one write, as its last call
\* to the store; its fetch leaves the store as it is; and the step in
\* which a call returns an error, the failing call to the store, leaves
\* every stored object, or its absence, and every token as they were just
\* before it.
FailedCallChangesNothing ==
    [][\A p \in Procs :
          LET c == calls[p]
              d == calls'[p]
          IN  (IsCou(d) /\ d # c) =>
                 /\ Cardinality(Writes(d)) <= 1
                 /\ Writes(d) \subseteq {Len(d.trace)}
                 /\ Writes(d) = {} => (store' = store /\ nextRV' = nextRV)
                 /\ (IsDone(d) /\ d.ret # "nil") =>
                       /\ LastCall(d).err = d.ret
                       /\ Outcome(d) \in {"FetchFailed", "CreateFailed", "UpdateFailed"}
                       /\ store' = store
                       /\ nextRV' = nextRV
    ]_vars

\* ... reached by a call whose object was deleted and removed between its
\* fetch and its update: the update failed, the object is still absent.
FailedCallChangesNothingWitness ==
    \E p \in Procs :
        /\ IsCou(calls[p]) /\ IsDone(calls[p])
        /\ Outcome(calls[p]) = "UpdateFailed"
        /\ calls[p].ret = "NotFound"
        /\ Writes(calls[p]) = {2}
        /\ ~Exists(store[KeyOf(calls[p])])

=============================================================================
